---- MODULE Spec2Model ----
(***************************************************************************)
(* A model of AudiobookGenerator.run                                       *)
(* (audiobook_generator/core/audiobook_generator.py): one run of the       *)
(* conversion pipeline, from the construction of the generator to the      *)
(* normal return of run() or the exception that leaves it.  Every call     *)
(* that leaves the generator (book parser, TTS provider, message sink,     *)
(* artifact sink, logger, local storage) is one step and is recorded in    *)
(* trace; a call of a collaborator either returns or raises.               *)
(***************************************************************************)
EXTENDS Integers, Sequences, FiniteSets

\* Largest number of chapters the book parser yields (before blank filtering).
MaxChapters == 4

VARIABLES
    book,          \* what book_parser.get_chapters yields: Seq of [title, text]
    args,          \* the configuration as the caller supplied it
    config,        \* self.config (run() writes chapter_end)
    send_message,  \* self.send_message: "callable" or "None"
    send_audio,    \* self.send_audio:   "callable" or "None"
    pc,            \* position of run()
    chapters,      \* the local variable chapters of run()
    idx,           \* the loop index of enumerate(chapters, start=1)
    exc,           \* the exception in flight (NoExc when there is none)
    dirExists,     \* does config.output_folder exist
    files,         \* the files under config.output_folder
    trace          \* the calls made so far, oldest first

vars == <<book, args, config, send_message, send_audio, pc, chapters, idx,
          exc, dirExists, files, trace>>

-----------------------------------------------------------------------------
(* Texts, chapters, books *)

\* A text is a sequence of characters; " " stands for any whitespace.
Spaces(n) == [j \in 1..n |-> " "]
Letters(n) == [j \in 1..n |-> "x"]

\* text.strip(): the text without its leading and trailing whitespace.
RECURSIVE LStrip(_)
LStrip(t) == IF t # <<>> /\ Head(t) = " " THEN LStrip(Tail(t)) ELSE t

RECURSIVE RStrip(_)
RStrip(t) ==
    IF t # <<>> /\ t[Len(t)] = " " THEN RStrip(SubSeq(t, 1, Len(t) - 1)) ELSE t

Strip(t) == RStrip(LStrip(t))

\* The texts the parser may give the chapter at position i: whitespace only,
\* or i letters.
TextsAt(i) == {Spaces(i), Letters(i)}

Books ==
    UNION { { [i \in 1..n |-> [title |-> i, text |-> f[i]]] :
                f \in { g \in [1..n -> UNION {TextsAt(i) : i \in 1..n}] :
                          \A i \in 1..n : g[i] \in TextsAt(i) } } :
            n \in 1..MaxChapters }

\* [(title, text) for title, text in chapters if text.strip()]
RECURSIVE NonBlank(_)
NonBlank(cs) ==
    IF cs = <<>> THEN <<>>
    ELSE IF Strip(Head(cs).text) # <<>>
         THEN <<Head(cs)>> \o NonBlank(Tail(cs))
         ELSE NonBlank(Tail(cs))

\* Slice with the start taken as a 0-based index: chapters[a : b].
SliceOffByOne(cs, a, b) ==
    LET hi == IF b > Len(cs) THEN Len(cs) ELSE b
    IN  IF a + 1 > hi THEN <<>> ELSE SubSeq(cs, a + 1, hi)

\* chapters[a - 1 : b] for 1 <= a and 0 <= b
Slice(cs, a, b) ==
    LET hi == IF b > Len(cs) THEN Len(cs) ELSE b
    IN  IF a > hi THEN <<>> ELSE SubSeq(cs, a, hi)

RECURSIVE get_total_chars(_)
get_total_chars(cs) ==
    IF cs = <<>> THEN 0 ELSE Len(Head(cs).text) + get_total_chars(Tail(cs))

-----------------------------------------------------------------------------
(* Paths and tags *)

\* f"{idx:04d}": the decimal digits of idx, zero-padded to four.
Pad4(n) ==
    <<(n \div 1000) % 10, (n \div 100) % 10, (n \div 10) % 10, n % 10>>

\* os.path.join(output_folder, f"{idx:04d}_{title}.{ext}")
FilePath(i, title, ext) ==
    [folder |-> config.output_folder, ordinal |-> Pad4(i), title |-> title,
     ext |-> ext]

TextFile(i, title) == FilePath(i, title, "txt")
OutputFile(i, title) == FilePath(i, title, "audio")

AudioTags(title, i) ==
    [title |-> title, author |-> "book_author", book_title |-> "book_title",
     idx |-> i]

-----------------------------------------------------------------------------
(* Exceptions *)

\* How an exception meets the two except clauses of run(): an Exception, a
\* KeyboardInterrupt, or another BaseException (asyncio.CancelledError).
ExcClasses == {"Exception", "KeyboardInterrupt", "CancelledError"}

NoExc == [cls |-> "none", what |-> "none"]

\* Raised by run() itself.
StartOutOfRange == [cls |-> "Exception", what |-> "start_out_of_range"]
EndOutOfRange == [cls |-> "Exception", what |-> "end_out_of_range"]
StartLargerThanEnd == [cls |-> "Exception", what |-> "start_larger_than_end"]
\* Calling None: TypeError, 'NoneType' object is not callable.
NoneNotCallable == [cls |-> "Exception", what |-> "NoneType_not_callable"]
\* os.remove of an absent file.
FileNotFound == [cls |-> "Exception", what |-> "file_not_found"]
\* Raised by a collaborator.
RaisedBy(callee, cls) == [cls |-> cls, what |-> callee]

\* An exception raised inside the try block of run(): the two except clauses
\* take a KeyboardInterrupt or an Exception; anything else leaves run().
RaiseInTry(e) ==
    /\ exc' = e
    /\ pc' = IF e.cls = "KeyboardInterrupt" THEN "except_keyboard_interrupt"
             ELSE IF e.cls = "Exception" THEN "except_exception"
             ELSE "raised"

Append1(ev) == trace' = Append(trace, ev)

-----------------------------------------------------------------------------
(* The state after AudiobookGenerator(config, ..., send_message, send_audio) *)

Starts == 0..(MaxChapters + 1)
Ends == (-2)..(MaxChapters + 1)

Init ==
    /\ book \in Books
    /\ args \in [chapter_start : Starts, chapter_end : Ends,
                 preview : BOOLEAN, output_text : BOOLEAN,
                 output_folder : {"output_audios"}]
    /\ config = args
    /\ send_message \in {"callable", "None"}
    /\ send_audio \in {"callable", "None"}
    /\ pc = "start"
    /\ chapters = <<>>
    /\ idx = 0
    /\ exc = NoExc
    /\ dirExists \in BOOLEAN
    /\ files = {}
    /\ trace = <<>>

-----------------------------------------------------------------------------
(* Messages *)

CountMsg(n) == [kind |-> "chapters_count", n |-> n]
RangeMsg(a, b) == [kind |-> "converting_from_to", from |-> a, to |-> b]
TotalCharsMsg(n) == [kind |-> "total_characters", n |-> n]
CostMsg(n) == [kind |-> "estimated_cost", chars |-> n]
ProgressMsg(preview, i, total, c) ==
    [kind |-> IF preview THEN "previewing" ELSE "converting", idx |-> i,
     total |-> total, title |-> c.title, chars |-> Len(c.text)]
ConvertedMsg(i, total, c) ==
    [kind |-> "converted", idx |-> i, total |-> total, title |-> c.title]
AllConvertedMsg == [kind |-> "all_chapters_converted"]
StoppedMsg == [kind |-> "job_stopped_by_user"]
ErrorMsg(e) == [kind |-> "an_error_occurred", text |-> e.what]

\* await self.send_message(m) inside the try block.  self.send_message is the
\* attribute __init__ assigned (it hides the method of the same name): the
\* caller's sink, or None, and calling None raises TypeError.
AwaitSendMessage(m, next) ==
    IF send_message = "None"
    THEN /\ RaiseInTry(NoneNotCallable)
         /\ UNCHANGED trace
    ELSE \E r \in {"ok"} \cup ExcClasses :
            /\ Append1([op |-> "send_message", msg |-> m, res |-> r])
            /\ IF r = "ok"
               THEN pc' = next /\ UNCHANGED exc
               ELSE RaiseInTry(RaisedBy("send_message", r))

\* The method AudiobookGenerator.send_message (lines 121-125): the sink when
\* there is one, the logger otherwise.  No step of run() uses it: every
\* self.send_message(...) of run() finds the attribute of the same name.
send_message_method(m, next) ==
    IF send_message # "None"
    THEN AwaitSendMessage(m, next)
    ELSE /\ Append1([op |-> "log", msg |-> "status", status |-> m,
                  res |-> "ok"])
         /\ pc' = next
         /\ UNCHANGED exc

\* await self.send_message(m); raise  -- inside an except clause: the
\* exception in flight leaves run() unless the call raises another one.
AwaitSendMessageThenRaise(m) ==
    /\ pc' = "raised"
    /\ IF send_message = "None"
       THEN /\ exc' = NoneNotCallable
            /\ UNCHANGED trace
       ELSE \E r \in {"ok"} \cup ExcClasses :
               /\ Append1([op |-> "send_message", msg |-> m, res |-> r])
               /\ exc' = IF r = "ok" THEN exc
                         ELSE RaisedBy("send_message", r)

-----------------------------------------------------------------------------
(* run() *)

\* Lines 43-48: the parser and the provider are made, the output folder is
\* created, the chapters are read and the blank ones dropped.
Initialize ==
    /\ pc = "start"
    /\ \E r \in {"ok"} \cup ExcClasses :
          IF r = "ok"
          THEN /\ dirExists' = TRUE
               /\ chapters' = NonBlank(book)
               /\ trace' = trace \o
                     <<[op |-> "makedirs", path |-> config.output_folder,
                        created |-> ~dirExists, res |-> "ok"],
                       [op |-> "get_chapters", res |-> r]>>
               /\ pc' = "validate"
               /\ UNCHANGED exc
          ELSE /\ Append1([op |-> "get_book_parser", res |-> r])
               /\ RaiseInTry(RaisedBy("get_book_parser", r))
               /\ UNCHANGED <<dirExists, chapters>>
    /\ UNCHANGED <<book, args, config, send_message, send_audio, idx, files>>

\* ValidateRange with chapter_end = -1 resolved to the last index of a 0-based
\* list, len(chapters) - 1.
ValidateRangeResolvingShort ==
    /\ pc = "validate"
    /\ LET n == Len(chapters)
           s == config.chapter_start
           e == config.chapter_end
           resolved == IF e = -1 THEN n - 1 ELSE e
       IN  IF s < 1 \/ s > n
           THEN RaiseInTry(StartOutOfRange) /\ UNCHANGED <<config, chapters>>
           ELSE IF e < -1 \/ e > n
           THEN RaiseInTry(EndOutOfRange) /\ UNCHANGED <<config, chapters>>
           ELSE /\ config' = [config EXCEPT !.chapter_end = resolved]
                /\ IF s > resolved
                   THEN RaiseInTry(StartLargerThanEnd) /\ UNCHANGED chapters
                   ELSE /\ chapters' = Slice(chapters, s, resolved)
                        /\ pc' = "report_count"
                        /\ UNCHANGED exc
    /\ UNCHANGED <<book, args, send_message, send_audio, idx, dirExists,
                   files, trace>>

\* ValidateRange without the upper bound on chapter_end.
ValidateRangeWithoutEndUpperBound ==
    /\ pc = "validate"
    /\ LET n == Len(chapters)
           s == config.chapter_start
           e == config.chapter_end
           resolved == IF e = -1 THEN n ELSE e
       IN  IF s < 1 \/ s > n
           THEN RaiseInTry(StartOutOfRange) /\ UNCHANGED <<config, chapters>>
           ELSE IF e < -1
           THEN RaiseInTry(EndOutOfRange) /\ UNCHANGED <<config, chapters>>
           ELSE /\ config' = [config EXCEPT !.chapter_end = resolved]
                /\ IF s > resolved
                   THEN RaiseInTry(StartLargerThanEnd) /\ UNCHANGED chapters
                   ELSE /\ chapters' = Slice(chapters, s, resolved)
                        /\ pc' = "report_count"
                        /\ UNCHANGED exc
    /\ UNCHANGED <<book, args, send_message, send_audio, idx, dirExists,
                   files, trace>>

\* Lines 50-66: the range checks, the resolution of chapter_end = -1 and the
\* slice.
ValidateRange ==
    /\ pc = "validate"
    /\ LET n == Len(chapters)
           s == config.chapter_start
           e == config.chapter_end
           resolved == IF e = -1 THEN n ELSE e
       IN  IF s < 1 \/ s > n
           THEN RaiseInTry(StartOutOfRange) /\ UNCHANGED <<config, chapters>>
           ELSE IF e < -1 \/ e > n
           THEN RaiseInTry(EndOutOfRange) /\ UNCHANGED <<config, chapters>>
           ELSE /\ config' = [config EXCEPT !.chapter_end = resolved]
                /\ IF s > resolved
                   THEN RaiseInTry(StartLargerThanEnd) /\ UNCHANGED chapters
                   ELSE /\ chapters' = Slice(chapters, s, resolved)
                        /\ pc' = "report_count"
                        /\ UNCHANGED exc
    /\ UNCHANGED <<book, args, send_message, send_audio, idx, dirExists,
                   files, trace>>

\* Line 67
ReportChaptersCount ==
    /\ pc = "report_count"
    /\ AwaitSendMessage(CountMsg(Len(chapters)), "report_range")
    /\ UNCHANGED <<book, args, config, send_message, send_audio, chapters,
                   idx, dirExists, files>>

\* Lines 68-69
ReportRange ==
    /\ pc = "report_range"
    /\ AwaitSendMessage(RangeMsg(config.chapter_start, config.chapter_end),
                        "report_total")
    /\ UNCHANGED <<book, args, config, send_message, send_audio, chapters,
                   idx, dirExists, files>>

\* Lines 71-72
ReportTotalCharacters ==
    /\ pc = "report_total"
    /\ AwaitSendMessage(TotalCharsMsg(get_total_chars(chapters)),
                        "estimate_cost")
    /\ UNCHANGED <<book, args, config, send_message, send_audio, chapters,
                   idx, dirExists, files>>

\* Line 73
EstimateCost ==
    /\ pc = "estimate_cost"
    /\ \E r \in {"ok"} \cup ExcClasses :
          /\ Append1([op |-> "estimate_cost",
                      chars |-> get_total_chars(chapters), res |-> r])
          /\ IF r = "ok"
             THEN pc' = "report_cost" /\ UNCHANGED exc
             ELSE RaiseInTry(RaisedBy("estimate_cost", r))
    /\ UNCHANGED <<book, args, config, send_message, send_audio, chapters,
                   idx, dirExists, files>>

\* ReportCost with the cost message left out.
ReportCostOmitted ==
    /\ pc = "report_cost"
    /\ pc' = "loop"
    /\ UNCHANGED <<book, args, config, send_message, send_audio, chapters,
                   idx, exc, dirExists, files, trace>>

\* Line 74
ReportCost ==
    /\ pc = "report_cost"
    /\ AwaitSendMessage(CostMsg(get_total_chars(chapters)), "loop")
    /\ UNCHANGED <<book, args, config, send_message, send_audio, chapters,
                   idx, dirExists, files>>

\* Lines 76-82: the next item of enumerate(chapters, start=1) and the two
\* guards on its index.
NextChapter ==
    /\ pc = "loop"
    /\ IF idx + 1 > Len(chapters)
       THEN /\ pc' = "all_converted"
            /\ UNCHANGED <<idx, trace>>
       ELSE /\ idx' = idx + 1
            /\ IF idx + 1 < config.chapter_start
               THEN /\ Append1([op |-> "log", msg |-> "skipping",
                                idx |-> idx + 1, res |-> "ok"])
                    /\ pc' = "loop"
               ELSE IF idx + 1 > config.chapter_end
               THEN /\ Append1([op |-> "log", msg |-> "quitting",
                                idx |-> idx + 1, res |-> "ok"])
                    /\ pc' = "all_converted"
               ELSE /\ pc' = "progress"
                    /\ UNCHANGED trace
    /\ UNCHANGED <<book, args, config, send_message, send_audio, chapters,
                   exc, dirExists, files>>

\* Lines 84-88
ReportProgress ==
    /\ pc = "progress"
    /\ AwaitSendMessage(ProgressMsg(config.preview, idx, Len(chapters),
                                    chapters[idx]), "output_text")
    /\ UNCHANGED <<book, args, config, send_message, send_audio, chapters,
                   idx, dirExists, files>>

\* Lines 90-96: the text dump, and the end of the iteration in preview mode.
OutputText ==
    /\ pc = "output_text"
    /\ IF config.output_text
       THEN /\ files' = files \cup {TextFile(idx, chapters[idx].title)}
            /\ Append1([op |-> "write_text",
                        path |-> TextFile(idx, chapters[idx].title),
                        text |-> chapters[idx].text, res |-> "ok"])
       ELSE UNCHANGED <<files, trace>>
    /\ pc' = IF config.preview THEN "loop" ELSE "text_to_speech"
    /\ UNCHANGED <<book, args, config, send_message, send_audio, chapters,
                   idx, exc, dirExists>>

\* TextToSpeech with a failed chapter skipped: an Exception of the backend is
\* swallowed and the loop goes on to the next chapter.
TextToSpeechSkippingFailures ==
    /\ pc = "text_to_speech"
    /\ LET c == chapters[idx]
           output_file == OutputFile(idx, c.title)
       IN  \E r \in {"ok"} \cup ExcClasses :
              /\ Append1([op |-> "text_to_speech", text |-> c.text,
                          path |-> output_file,
                          tags |-> AudioTags(c.title, idx), res |-> r])
              /\ IF r = "ok"
                 THEN /\ files' = files \cup {output_file}
                      /\ pc' = IF send_audio # "None" THEN "send_audio"
                               ELSE "converted"
                      /\ UNCHANGED exc
                 ELSE IF r = "Exception"
                 THEN /\ pc' = "loop"
                      /\ UNCHANGED <<exc, files>>
                 ELSE /\ RaiseInTry(RaisedBy("text_to_speech", r))
                      /\ UNCHANGED files
    /\ UNCHANGED <<book, args, config, send_message, send_audio, chapters,
                   idx, dirExists>>

\* TextToSpeech followed by the delivery whether or not there is a sink
\* (the test of line 104 left out).
TextToSpeechAlwaysDelivering ==
    /\ pc = "text_to_speech"
    /\ LET c == chapters[idx]
           output_file == OutputFile(idx, c.title)
       IN  \E r \in {"ok"} \cup ExcClasses :
              /\ Append1([op |-> "text_to_speech", text |-> c.text,
                          path |-> output_file,
                          tags |-> AudioTags(c.title, idx), res |-> r])
              /\ IF r = "ok"
                 THEN /\ files' = files \cup {output_file}
                      /\ pc' = "send_audio"
                      /\ UNCHANGED exc
                 ELSE /\ RaiseInTry(RaisedBy("text_to_speech", r))
                      /\ UNCHANGED files
    /\ UNCHANGED <<book, args, config, send_message, send_audio, chapters,
                   idx, dirExists>>

\* TextToSpeech followed, when there is a sink, by the removal of the file
\* without its delivery.
TextToSpeechRemovingUnsent ==
    /\ pc = "text_to_speech"
    /\ LET c == chapters[idx]
           output_file == OutputFile(idx, c.title)
       IN  \E r \in {"ok"} \cup ExcClasses :
              /\ Append1([op |-> "text_to_speech", text |-> c.text,
                          path |-> output_file,
                          tags |-> AudioTags(c.title, idx), res |-> r])
              /\ IF r = "ok"
                 THEN /\ files' = files \cup {output_file}
                      /\ pc' = IF send_audio # "None" THEN "remove"
                               ELSE "converted"
                      /\ UNCHANGED exc
                 ELSE /\ RaiseInTry(RaisedBy("text_to_speech", r))
                      /\ UNCHANGED files
    /\ UNCHANGED <<book, args, config, send_message, send_audio, chapters,
                   idx, dirExists>>

\* Lines 98-102: the call either leaves the artifact at output_file or raises.
TextToSpeech ==
    /\ pc = "text_to_speech"
    /\ LET c == chapters[idx]
           output_file == OutputFile(idx, c.title)
       IN  \E r \in {"ok"} \cup ExcClasses :
              /\ Append1([op |-> "text_to_speech", text |-> c.text,
                          path |-> output_file,
                          tags |-> AudioTags(c.title, idx), res |-> r])
              /\ IF r = "ok"
                 THEN /\ files' = files \cup {output_file}
                      /\ pc' = IF send_audio # "None" THEN "send_audio"
                               ELSE "converted"
                      /\ UNCHANGED exc
                 ELSE /\ RaiseInTry(RaisedBy("text_to_speech", r))
                      /\ UNCHANGED files
    /\ UNCHANGED <<book, args, config, send_message, send_audio, chapters,
                   idx, dirExists>>

\* Lines 104-106: the sink returns (having left the file, or having removed
\* it itself) or raises.
SendAudio ==
    /\ pc = "send_audio"
    /\ LET output_file == OutputFile(idx, chapters[idx].title)
       IN  \E r \in {"ok", "ok_file_gone"} \cup ExcClasses :
              /\ trace' = trace \o
                    <<[op |-> "log", msg |-> "sending_audio",
                       path |-> output_file, res |-> "ok"],
                      [op |-> "send_audio", path |-> output_file,
                       res |-> r]>>
              /\ files' = IF r = "ok_file_gone" THEN files \ {output_file}
                          ELSE files
              /\ IF r \in {"ok", "ok_file_gone"}
                 THEN pc' = "remove" /\ UNCHANGED exc
                 ELSE RaiseInTry(RaisedBy("send_audio", r))
    /\ UNCHANGED <<book, args, config, send_message, send_audio, chapters,
                   idx, dirExists>>

\* RemoveAudio with the removal left out: the call is logged and returns, the
\* file stays.
RemoveAudioLeavingFile ==
    /\ pc = "remove"
    /\ LET output_file == OutputFile(idx, chapters[idx].title)
       IN  trace' = trace \o
              <<[op |-> "log", msg |-> "removing_audio",
                 path |-> output_file, res |-> "ok"],
                [op |-> "remove", path |-> output_file, res |-> "ok"]>>
    /\ pc' = "converted"
    /\ UNCHANGED <<book, args, config, send_message, send_audio, chapters,
                   idx, exc, dirExists, files>>

\* Lines 107-108: os.remove raises FileNotFoundError when the file is absent.
\* (An Exception raised by os.remove is recorded with res "Exception".)
RemoveAudio ==
    /\ pc = "remove"
    /\ LET output_file == OutputFile(idx, chapters[idx].title)
       IN  IF output_file \in files
           THEN /\ files' = files \ {output_file}
                /\ trace' = trace \o
                      <<[op |-> "log", msg |-> "removing_audio",
                         path |-> output_file, res |-> "ok"],
                        [op |-> "remove", path |-> output_file,
                         res |-> "ok"]>>
                /\ pc' = "converted"
                /\ UNCHANGED exc
           ELSE /\ trace' = trace \o
                      <<[op |-> "log", msg |-> "removing_audio",
                         path |-> output_file, res |-> "ok"],
                        [op |-> "remove", path |-> output_file,
                         res |-> "Exception"]>>
                /\ RaiseInTry(FileNotFound)
                /\ UNCHANGED files
    /\ UNCHANGED <<book, args, config, send_message, send_audio, chapters,
                   idx, dirExists>>

\* Line 110
ReportConverted ==
    /\ pc = "converted"
    /\ AwaitSendMessage(ConvertedMsg(idx, Len(chapters), chapters[idx]),
                        "loop")
    /\ UNCHANGED <<book, args, config, send_message, send_audio, chapters,
                   idx, dirExists, files>>

\* Line 112, and the normal return of run().
ReportAllConverted ==
    /\ pc = "all_converted"
    /\ AwaitSendMessage(AllConvertedMsg, "returned")
    /\ UNCHANGED <<book, args, config, send_message, send_audio, chapters,
                   idx, dirExists, files>>

\* Lines 114-116
ExceptKeyboardInterrupt ==
    /\ pc = "except_keyboard_interrupt"
    /\ AwaitSendMessageThenRaise(StoppedMsg)
    /\ UNCHANGED <<book, args, config, send_message, send_audio, chapters,
                   idx, dirExists, files>>

\* ExceptException without the `raise e` of line 119: the error is reported
\* and run() returns.
ExceptExceptionSwallowing ==
    /\ pc = "except_exception"
    /\ pc' = "returned"
    /\ IF send_message = "None"
       THEN /\ exc' = NoneNotCallable
            /\ UNCHANGED trace
       ELSE \E r \in {"ok"} \cup ExcClasses :
               /\ Append1([op |-> "send_message", msg |-> ErrorMsg(exc),
                           res |-> r])
               /\ exc' = IF r = "ok" THEN exc
                         ELSE RaisedBy("send_message", r)
    /\ UNCHANGED <<book, args, config, send_message, send_audio, chapters,
                   idx, dirExists, files>>

\* Lines 117-119
ExceptException ==
    /\ pc = "except_exception"
    /\ AwaitSendMessageThenRaise(ErrorMsg(exc))
    /\ UNCHANGED <<book, args, config, send_message, send_audio, chapters,
                   idx, dirExists, files>>

Next ==
    \/ Initialize
    \/ ValidateRange
    \/ ReportChaptersCount
    \/ ReportRange
    \/ ReportTotalCharacters
    \/ EstimateCost
    \/ ReportCost
    \/ NextChapter
    \/ ReportProgress
    \/ OutputText
    \/ TextToSpeech
    \/ SendAudio
    \/ RemoveAudio
    \/ ReportConverted
    \/ ReportAllConverted
    \/ ExceptKeyboardInterrupt
    \/ ExceptException

Spec == Init /\ [][Next]_vars

\* run() is a coroutine the event loop drives to its end: every call it
\* awaits returns or raises, after which the next statement is executed.
FairSpec == Spec /\ WF_vars(Next)

-----------------------------------------------------------------------------
(* telegram-bot/bot.py: the conversation from ENTERING_START_CHAPTER on, and
   process_ebook, which runs an AudiobookGenerator with the bot's sinks *)

\* Replies to invalid input after which the conversation is no longer followed.
MaxInvalidReplies == 2
\* int(update.message.text) for the texts that are numbers.
UserNumbers == (-1)..(MaxChapters + 1)

\* A reply of a handler, taken to be delivered.
ReplyText(kind) == [op |-> "reply_text", msg |-> [kind |-> kind], res |-> "ok"]
InvalidReplies ==
    SelectSeq(trace, LAMBDA ev : ev.op = "reply_text"
                                 /\ ev.msg.kind \in {"invalid_start", "invalid_end"})
BotSink == "process_ebook.send_audio"

\* The conversation is in ENTERING_START_CHAPTER (mode_selected, line 234);
\* args holds what process_ebook is to be called with: its defaults (line
\* 276) until a handler has stored the user's number.  send_func is
\* reply_text, the artifact sink the function of lines 305-311.
BotInit ==
    /\ book \in Books
    /\ args = [chapter_start |-> 1, chapter_end |-> -1, preview |-> FALSE,
               output_text |-> FALSE, output_folder |-> "./output-audios"]
    /\ config = args
    /\ send_message = "callable"
    /\ send_audio = BotSink
    /\ pc = "ENTERING_START_CHAPTER"
    /\ chapters = <<>>
    /\ idx = 0
    /\ exc = NoExc
    /\ dirExists \in BOOLEAN
    /\ files = {}
    /\ trace = <<>>

\* Lines 237-249.  A text that is no number makes int() raise ValueError.
enter_start_chapter ==
    /\ pc = "ENTERING_START_CHAPTER"
    /\ Len(InvalidReplies) < MaxInvalidReplies
    /\ \/ \E start_chapter \in UserNumbers :
             IF start_chapter < 1
             THEN /\ Append1(ReplyText("invalid_start"))
                  /\ UNCHANGED <<pc, args>>
             ELSE /\ args' = [args EXCEPT !.chapter_start = start_chapter]
                  /\ trace' = Append(trace,
                        [op |-> "reply_text",
                         msg |-> [kind |-> "starting_chapter_set",
                                  n |-> start_chapter], res |-> "ok"])
                  /\ pc' = "ENTERING_END_CHAPTER"
       \/ /\ Append1(ReplyText("invalid_start"))
          /\ UNCHANGED <<pc, args>>
    /\ UNCHANGED <<book, config, send_message, send_audio, chapters, idx,
                   exc, dirExists, files>>

\* Lines 252-266, up to the call of process_ebook.
enter_end_chapter ==
    /\ pc = "ENTERING_END_CHAPTER"
    /\ Len(InvalidReplies) < MaxInvalidReplies
    /\ \/ \E end_chapter \in UserNumbers :
             IF end_chapter < 1 \/ end_chapter <= args.chapter_start
             THEN /\ Append1(ReplyText("invalid_end"))
                  /\ UNCHANGED <<pc, args>>
             ELSE /\ args' = [args EXCEPT !.chapter_end = end_chapter]
                  /\ trace' = Append(trace,
                        [op |-> "reply_text",
                         msg |-> [kind |-> "ending_chapter_set",
                                  n |-> end_chapter], res |-> "ok"])
                  /\ pc' = "process_ebook"
       \/ /\ Append1(ReplyText("invalid_end"))
          /\ UNCHANGED <<pc, args>>
    /\ UNCHANGED <<book, config, send_message, send_audio, chapters, idx,
                   exc, dirExists, files>>

\* Lines 275-313: a voice is found or not; with one, custom_args makes the
\* configuration and the generator is constructed with the two sinks.
process_ebook ==
    /\ pc = "process_ebook"
    /\ \E voices \in BOOLEAN :
          IF voices
          THEN /\ Append1(ReplyText("processing_your_ebook"))
               /\ config' = args
               /\ pc' = "start"
          ELSE /\ Append1(ReplyText("no_voice_available"))
               /\ pc' = "END"
               /\ UNCHANGED config
    /\ UNCHANGED <<book, args, send_message, send_audio, chapters, idx, exc,
                   dirExists, files>>

\* Lines 104-106 with the sink of lines 305-311 without its try/except:
\* whatever open() or the upload raises leaves the sink.
process_ebook_send_audio_unguarded ==
    /\ pc = "send_audio"
    /\ LET output_file == OutputFile(idx, chapters[idx].title)
       IN  \E u \in {"ok"} \cup ExcClasses :
              /\ trace' = trace \o
                    <<[op |-> "log", msg |-> "sending_audio",
                       path |-> output_file, res |-> "ok"],
                      [op |-> "bot.send_audio", path |-> output_file,
                       res |-> u],
                      [op |-> "log",
                       msg |-> IF u = "ok" THEN "audio_file_sent"
                               ELSE "nothing_logged",
                       path |-> output_file, res |-> "ok"],
                      [op |-> "send_audio", path |-> output_file,
                       res |-> u]>>
              /\ IF u = "ok"
                 THEN pc' = "remove" /\ UNCHANGED exc
                 ELSE RaiseInTry(RaisedBy("send_audio", u))
    /\ UNCHANGED <<book, args, config, send_message, send_audio, chapters,
                   idx, dirExists, files>>

\* Lines 104-106 of run() with the sink of bot.py lines 305-311: open() and
\* context.bot.send_audio return or raise; an Exception is logged and the sink
\* returns, anything else leaves it.  The sink does not touch the file.
process_ebook_send_audio ==
    /\ pc = "send_audio"
    /\ LET output_file == OutputFile(idx, chapters[idx].title)
       IN  \E u \in {"ok"} \cup ExcClasses :
              LET r == IF u \in {"ok", "Exception"} THEN "ok" ELSE u
              IN  /\ trace' = trace \o
                        <<[op |-> "log", msg |-> "sending_audio",
                           path |-> output_file, res |-> "ok"],
                          [op |-> "bot.send_audio", path |-> output_file,
                           res |-> u],
                          [op |-> "log",
                           msg |-> IF u = "ok" THEN "audio_file_sent"
                                   ELSE IF u = "Exception"
                                   THEN "error_sending_audio_file"
                                   ELSE "nothing_logged",
                           path |-> output_file, res |-> "ok"],
                          [op |-> "send_audio", path |-> output_file,
                           res |-> r]>>
                  /\ IF r = "ok"
                     THEN pc' = "remove" /\ UNCHANGED exc
                     ELSE RaiseInTry(RaisedBy("send_audio", r))
    /\ UNCHANGED <<book, args, config, send_message, send_audio, chapters,
                   idx, dirExists, files>>

\* Lines 316-329, run() having returned: the .mp3 files still in the output
\* folder are uploaded and removed, then the closing message is sent.
process_ebook_after_run ==
    /\ pc = "returned"
    /\ \E r \in {"ok"} \cup ExcClasses :
          /\ Append1([op |-> "reply_text",
                      msg |-> [kind |-> IF config.preview
                                        THEN "preview_completed"
                                        ELSE "all_audio_files_sent"],
                      res |-> r])
          /\ files' = IF config.preview THEN files
                      ELSE {f \in files : f.ext # "audio"}
          /\ IF r = "ok"
             THEN pc' = "finally" /\ UNCHANGED exc
             ELSE pc' = "raised" /\ exc' = RaisedBy("reply_text", r)
    /\ UNCHANGED <<book, args, config, send_message, send_audio, chapters,
                   idx, dirExists>>

\* Lines 330-331: an Exception out of the try block of process_ebook.
process_ebook_except ==
    /\ pc = "raised"
    /\ exc.cls = "Exception"
    /\ \E r \in {"ok"} \cup ExcClasses :
          /\ Append1([op |-> "reply_text",
                      msg |-> [kind |-> "error_during_processing",
                               text |-> exc.what],
                      res |-> r])
          /\ exc' = IF r = "ok" THEN NoExc ELSE RaisedBy("reply_text", r)
    /\ pc' = "finally"
    /\ UNCHANGED <<book, args, config, send_message, send_audio, chapters,
                   idx, dirExists, files>>

\* Lines 332-336 and the return of the handler (line 269): os.listdir raises
\* when the folder was never created; otherwise the folder is emptied, and
\* the conversation ends unless an exception is still on its way out.
process_ebook_finally ==
    /\ pc \in {"finally", "raised"}
    /\ pc = "raised" => exc.cls # "Exception"
    /\ IF dirExists
       THEN /\ files' = {}
            /\ Append1([op |-> "cleanup", res |-> "ok"])
            /\ pc' = IF exc = NoExc THEN "END" ELSE "handler_raised"
            /\ UNCHANGED exc
       ELSE /\ Append1([op |-> "cleanup", res |-> "Exception"])
            /\ exc' = FileNotFound
            /\ pc' = "handler_raised"
            /\ UNCHANGED files
    /\ UNCHANGED <<book, args, config, send_message, send_audio, chapters,
                   idx, dirExists>>

BotNext ==
    \/ enter_start_chapter
    \/ enter_end_chapter
    \/ process_ebook
    \/ Initialize
    \/ ValidateRange
    \/ ReportChaptersCount
    \/ ReportRange
    \/ ReportTotalCharacters
    \/ EstimateCost
    \/ ReportCost
    \/ NextChapter
    \/ ReportProgress
    \/ OutputText
    \/ TextToSpeech
    \/ process_ebook_send_audio
    \/ RemoveAudio
    \/ ReportConverted
    \/ ReportAllConverted
    \/ ExceptKeyboardInterrupt
    \/ ExceptException
    \/ process_ebook_after_run
    \/ process_ebook_except
    \/ process_ebook_finally

BotSpec == BotInit /\ [][BotNext]_vars

-----------------------------------------------------------------------------
(* What the properties below speak of *)

Terminal == {"returned", "raised"}

\* The chapters the range is counted over: the non-blank ones, in book order.
Filtered == NonBlank(book)
N == Len(Filtered)

\* The requested range, with end = -1 read as N.
Start == args.chapter_start
ResolvedEnd == IF args.chapter_end = -1 THEN N ELSE args.chapter_end
ValidRequest ==
    /\ 1 <= Start /\ Start <= N
    /\ -1 <= args.chapter_end /\ args.chapter_end <= N
    /\ Start <= ResolvedEnd
RangeErrors == {StartOutOfRange, EndOutOfRange, StartLargerThanEnd}

\* The calls of one kind made so far, oldest first.
Calls(op) == SelectSeq(trace, LAMBDA ev : ev.op = op)
Messages == Calls("send_message")
IsProgress(ev) == ev.msg.kind \in {"previewing", "converting"}
ProgressCalls == SelectSeq(Messages, IsProgress)
LastCall == trace[Len(trace)]
\* What the two guards of the loop have logged: chapters skipped or cut off.
GuardLogs ==
    SelectSeq(Calls("log"), LAMBDA ev : ev.msg \in {"skipping", "quitting"})

\* Every call of the message sink so far has returned.
MessageSinkReturned == \A i \in 1..Len(Messages) : Messages[i].res = "ok"
\* The chapters were read: run() has got as far as the range checks.
ChaptersRead == Len(Calls("get_chapters")) = 1
\* The loop of run() has been left normally.
LoopDone == pc \in {"all_converted", "returned"}

-----------------------------------------------------------------------------
(* C1 *)

\* C1 (as claimed): for a valid request over N >= 1 non-blank chapters, run()
\* raises no range error and previews or converts exactly the chapters at
\* positions Start..ResolvedEnd of the filtered sequence, each once and in
\* ascending order; the idx < start / idx > end guards drop none of them.
C1_ProcessesExactlyTheRange ==
    ValidRequest =>
        /\ exc \notin RangeErrors
        /\ LoopDone =>
              /\ Len(ProgressCalls) = ResolvedEnd - Start + 1
              /\ \A i \in 1..Len(ProgressCalls) :
                    /\ i <= ResolvedEnd - Start + 1
                    /\ ProgressCalls[i].msg.title = Filtered[Start + i - 1].title
              /\ Len(GuardLogs) = 0

-----------------------------------------------------------------------------
(* C2 *)

\* C2 (as claimed): in a live run over a valid range, chapter i of the
\* filtered sequence, for i = Start..ResolvedEnd, causes exactly one
\* text_to_speech call, with output path <folder>/<i as 4 digits>_<title>.<ext>
\* and AudioTags ordinal i.
C2_OneArtifactPerPosition ==
    (ValidRequest /\ ~args.preview /\ LoopDone) =>
        LET tts == Calls("text_to_speech")
        IN  /\ Len(tts) = ResolvedEnd - Start + 1
            /\ \A k \in 1..Len(tts) :
                  LET i == Start + k - 1
                  IN  /\ i <= N
                      /\ tts[k].path = OutputFile(i, Filtered[i].title)
                      /\ tts[k].path.ordinal = Pad4(i)
                      /\ tts[k].tags.idx = i
                      /\ tts[k].tags.title = Filtered[i].title
                      /\ tts[k].text = Filtered[i].text

-----------------------------------------------------------------------------
(* C3 *)

\* C3 (as claimed): for a request outside the range rules, run() makes no
\* text_to_speech call and no artifact-sink call, and it ends by raising the
\* range error, after the error's text went to the message sink.
C3_InvalidRangeAborts ==
    (~ValidRequest) =>
        /\ Len(Calls("text_to_speech")) = 0
        /\ Len(Calls("send_audio")) = 0
        /\ (ChaptersRead /\ pc \in Terminal /\ MessageSinkReturned) =>
              /\ pc = "raised"
              /\ exc \in RangeErrors
              /\ Len(Messages) = 1
              /\ Messages[1].msg = ErrorMsg(exc)

\* With a message sink whose calls return, C3 holds of the code.
C3_InvalidRangeAbortsWithSink ==
    send_message = "callable" => C3_InvalidRangeAborts

-----------------------------------------------------------------------------
(* C4 *)

TtsCalls == Calls("text_to_speech")
BackendError == RaisedBy("text_to_speech", "Exception")
ArtifactOf(i) == OutputFile(i, Filtered[i].title)
DumpOf(i) == TextFile(i, Filtered[i].title)
\* Some call of text_to_speech has raised an Exception.
BackendFailed == \E k \in 1..Len(TtsCalls) : TtsCalls[k].res = "Exception"

\* C4: in a live run over chapters 1..N (start = 1, end = -1), once
\* text_to_speech has raised an Exception, the failed call is the last
\* text_to_speech call of the run and is the call for chapter k, where
\* chapters 1..k-1 were converted before it (and, with an artifact sink,
\* delivered and then removed); no artifact exists for chapter k or a later
\* one; the artifacts kept (no artifact sink) and the text dumps written are
\* still there; the run is in the except clause or has raised, and when it
\* has raised, the last call it made is the error-text message.
C4_BackendErrorAborts ==
    (args.chapter_start = 1 /\ args.chapter_end = -1 /\ BackendFailed) =>
        LET k == Len(TtsCalls)
        IN  /\ TtsCalls[k].res = "Exception"
            /\ k <= N
            /\ \A j \in 1..k : TtsCalls[j].path = ArtifactOf(j)
            /\ \A j \in 1..(k - 1) : TtsCalls[j].res = "ok"
            /\ \A j \in k..N : ArtifactOf(j) \notin files
            /\ IF send_audio = "callable"
               THEN /\ Len(Calls("send_audio")) = k - 1
                    /\ Len(Calls("remove")) = k - 1
                    /\ \A j \in 1..(k - 1) :
                          /\ Calls("send_audio")[j] =
                                [op |-> "send_audio", path |-> ArtifactOf(j),
                                 res |-> "ok"]
                          /\ Calls("remove")[j] =
                                [op |-> "remove", path |-> ArtifactOf(j),
                                 res |-> "ok"]
                          /\ ArtifactOf(j) \notin files
               ELSE /\ Len(Calls("send_audio")) = 0
                    /\ Len(Calls("remove")) = 0
                    /\ \A j \in 1..(k - 1) : ArtifactOf(j) \in files
            /\ args.output_text => \A j \in 1..k : DumpOf(j) \in files
            /\ pc \in {"except_exception", "raised"}
            /\ pc = "except_exception" =>
                  /\ exc = BackendError
                  /\ LastCall = TtsCalls[k]
            /\ pc = "raised" =>
                  /\ LastCall.op = "send_message"
                  /\ LastCall.msg = ErrorMsg(BackendError)
                  /\ trace[Len(trace) - 1] = TtsCalls[k]

\* The backend failed on the second chapter of a run with an artifact sink
\* and text dumps, and the run has raised.
C4_Witness ==
    /\ args.chapter_start = 1 /\ args.chapter_end = -1
    /\ send_audio = "callable" /\ args.output_text
    /\ Len(TtsCalls) = 2 /\ TtsCalls[2].res = "Exception"
    /\ N >= 3
    /\ pc = "raised" /\ exc = BackendError

-----------------------------------------------------------------------------
(* C5 *)

\* C5 (as claimed): when send_audio raises an Exception the run does not
\* abort: that exception never reaches the except clause of run() nor leaves
\* run(), and the step after the failed delivery is the removal of the file.
C5_DeliveryFailureIsolated ==
    /\ exc # RaisedBy("send_audio", "Exception")
    /\ (Len(trace) >= 1 /\ LastCall.op = "send_audio"
          /\ LastCall.res = "Exception") => pc = "remove"

-----------------------------------------------------------------------------
(* C6 *)

\* The per-chapter step of the k-th text_to_speech call is over.
StepOver(k) ==
    \/ k < Len(TtsCalls)
    \/ pc \in {"loop", "all_converted", "returned", "raised"}

\* Nothing has raised in the run but, possibly, deliveries (with an Exception).
OnlyDeliveriesFailed ==
    \A i \in 1..Len(trace) :
        trace[i].res \in ExcClasses =>
            trace[i].op = "send_audio" /\ trace[i].res = "Exception"

\* C6 (as claimed): with an artifact sink, once the per-chapter step of a
\* converted chapter is over, its artifact is not on local storage, whether
\* the delivery call returned or raised.
C6_ArtifactGoneAfterStep ==
    (send_audio = "callable" /\ OnlyDeliveriesFailed) =>
        \A k \in 1..Len(TtsCalls) :
            (TtsCalls[k].res = "ok" /\ StepOver(k)) =>
                TtsCalls[k].path \notin files

-----------------------------------------------------------------------------
(* C7 *)

\* C7 (as claimed): a preview run over a valid range makes no text_to_speech
\* call and no artifact-sink call, and with output_text set it has written,
\* when it returns, the text dump of every chapter of Start..ResolvedEnd.
C7_PreviewOnlyDumps ==
    (args.preview /\ ValidRequest) =>
        /\ Len(TtsCalls) = 0
        /\ Len(Calls("send_audio")) = 0
        /\ (args.output_text /\ pc = "returned") =>
              \A i \in Start..ResolvedEnd : DumpOf(i) \in files

-----------------------------------------------------------------------------
(* C8 *)

IsTerminalMsg(ev) ==
    ev.msg.kind \in {"all_chapters_converted", "job_stopped_by_user",
                     "an_error_occurred"}
TerminalMessages == SelectSeq(Messages, IsTerminalMsg)

\* Every exception raised so far is one the except clauses of run() name.
OnlyNamedExceptions ==
    \A i \in 1..Len(trace) : trace[i].res # "CancelledError"

\* C8 (as claimed): a run that has ended has sent exactly one terminal
\* message: all-chapters-converted when it returned, stopped-by-user when a
\* KeyboardInterrupt left it, error-text when another exception left it.
C8_OneTerminalMessage ==
    (pc \in Terminal /\ MessageSinkReturned /\ OnlyNamedExceptions) =>
        /\ Len(TerminalMessages) = 1
        /\ TerminalMessages[1].msg.kind =
              IF pc = "returned" THEN "all_chapters_converted"
              ELSE IF exc.cls = "KeyboardInterrupt" THEN "job_stopped_by_user"
              ELSE "an_error_occurred"

\* With a message sink, C8 holds of the code.
C8_OneTerminalMessageWithSink ==
    send_message = "callable" => C8_OneTerminalMessage

-----------------------------------------------------------------------------
(* C9 *)

Cancellations == {"KeyboardInterrupt", "CancelledError"}
AwaitedCalls == {"send_message", "send_audio", "text_to_speech",
                 "estimate_cost"}
\* A sink call or a backend call of the run was cancelled.
Cancelled ==
    \E i \in 1..Len(trace) :
        trace[i].op \in AwaitedCalls /\ trace[i].res \in Cancellations

\* C9 (as claimed): a run in which a sink call or a backend call was
\* cancelled ends by raising the cancellation, having sent the
\* stopped-by-user message and no error-text message.
C9_CancellationReported ==
    (Cancelled /\ pc \in Terminal) =>
        /\ pc = "raised"
        /\ exc.cls \in Cancellations
        /\ \E i \in 1..Len(Messages) : Messages[i].msg = StoppedMsg
        /\ \A i \in 1..Len(Messages) :
              Messages[i].msg.kind # "an_error_occurred"

-----------------------------------------------------------------------------
(* C10 *)

\* No collaborator has raised.
CollaboratorsReturned ==
    \A i \in 1..Len(trace) : trace[i].res \notin ExcClasses
LoggedMessages == SelectSeq(Calls("log"), LAMBDA ev : ev.msg = "status")

\* C10 (as claimed): without a message sink the run proceeds as it does with
\* one and the status messages go to the logger: a valid request whose
\* collaborators all return ends in a normal return, with the
\* all-chapters-converted message logged.
C10_NoSinkSameOutcome ==
    (send_message = "None" /\ ValidRequest /\ pc \in Terminal
       /\ CollaboratorsReturned) =>
        /\ pc = "returned"
        /\ \E i \in 1..Len(LoggedMessages) :
              LoggedMessages[i].status = AllConvertedMsg

-----------------------------------------------------------------------------
(* C11 *)

\* The sum of len(text) over the chapters at positions i..j of the filtered
\* sequence.
RECURSIVE SumOfLengths(_, _)
SumOfLengths(i, j) ==
    IF i > j THEN 0 ELSE Len(Filtered[i].text) + SumOfLengths(i + 1, j)

\* The sum of len(text) over every chapter the parser gave, blank or not.
RECURSIVE SumOfBook(_)
SumOfBook(i) == IF i = 0 THEN 0 ELSE Len(book[i].text) + SumOfBook(i - 1)

TotalCharsMessages ==
    SelectSeq(Messages, LAMBDA ev : ev.msg.kind = "total_characters")

\* C11: for a valid request, every total-character message sent and every
\* estimate_cost call carries the sum of len(text) over the chapters at
\* filtered positions Start..ResolvedEnd, and nothing else.
C11_TotalIsSumOverRange ==
    ValidRequest =>
        /\ \A i \in 1..Len(TotalCharsMessages) :
              TotalCharsMessages[i].msg.n = SumOfLengths(Start, ResolvedEnd)
        /\ \A i \in 1..Len(Calls("estimate_cost")) :
              Calls("estimate_cost")[i].chars = SumOfLengths(Start, ResolvedEnd)

\* The total was reported and passed to estimate_cost for a range that leaves
\* out a chapter before it, a chapter after it and a blank chapter.
C11_Witness ==
    /\ ValidRequest
    /\ Start > 1 /\ ResolvedEnd < N /\ N < Len(book)
    /\ Len(TotalCharsMessages) = 1 /\ Len(Calls("estimate_cost")) = 1
    /\ TotalCharsMessages[1].msg.n < SumOfLengths(1, N)
    /\ SumOfLengths(1, N) < SumOfBook(Len(book))

-----------------------------------------------------------------------------
(* C12 *)

ReportKinds == <<"chapters_count", "converting_from_to", "total_characters",
                 "estimated_cost">>
IsReport(ev) ==
    ev.op = "send_message" /\ \E k \in 1..Len(ReportKinds) : ev.msg.kind = ReportKinds[k]
\* A per-chapter progress message, a text dump or a text_to_speech call.
IsChapterWork(ev) ==
    \/ ev.op = "send_message" /\ ev.msg.kind \in {"previewing", "converting"}
    \/ ev.op = "write_text"
    \/ ev.op = "text_to_speech"
ReportMessages == SelectSeq(trace, IsReport)

\* C12: the report messages sent so far are, in this order and without
\* repetition, a beginning of: chapter count, selected range, total
\* characters, estimated cost; none is sent for an invalid request; all four
\* have been sent, and have returned, before the first progress message, the
\* first text dump and the first text_to_speech call, and a run that returns
\* has sent exactly these four.
C12_FourReportsFirst ==
    /\ Len(ReportMessages) <= Len(ReportKinds)
    /\ \A k \in 1..Len(ReportMessages) :
          ReportMessages[k].msg.kind = ReportKinds[k]
    /\ (~ValidRequest) => Len(ReportMessages) = 0
    /\ \A j \in 1..Len(trace) :
          IsChapterWork(trace[j]) =>
              /\ Len(ReportMessages) = Len(ReportKinds)
              /\ \A k \in 1..Len(ReportMessages) : ReportMessages[k].res = "ok"
              /\ \A i \in 1..Len(trace) : IsReport(trace[i]) => i < j
    /\ pc \in {"loop", "progress", "output_text", "text_to_speech",
               "send_audio", "remove", "converted", "all_converted",
               "returned"} =>
          Len(ReportMessages) = Len(ReportKinds)

\* A live run with text dumps has returned after converting a chapter.
C12_Witness ==
    /\ pc = "returned"
    /\ ~args.preview /\ args.output_text
    /\ Len(Calls("text_to_speech")) >= 2
    /\ Len(Calls("write_text")) >= 2
    /\ Len(ReportMessages) = Len(ReportKinds)

-----------------------------------------------------------------------------
(* C13 *)

\* C13 (as claimed): the chapter-count message carries N, the number of
\* non-blank chapters of the book, whatever the selected range, and the
\* range message carries the requested start and the resolved end.
C13_CountIsWholeBook ==
    \A i \in 1..Len(Messages) :
        /\ Messages[i].msg.kind = "chapters_count" => Messages[i].msg = CountMsg(N)
        /\ Messages[i].msg.kind = "converting_from_to" =>
              Messages[i].msg = RangeMsg(Start, ResolvedEnd)

\* The range message alone is as claimed.
C13_RangeMessageIsRequest ==
    \A i \in 1..Len(Messages) :
        Messages[i].msg.kind = "converting_from_to" =>
            Messages[i].msg = RangeMsg(Start, ResolvedEnd)

-----------------------------------------------------------------------------
(* C14 *)

\* The request start = 1, end = -1 of a live run over at least one chapter.
WholeBookLive ==
    args.chapter_start = 1 /\ args.chapter_end = -1 /\ ~args.preview /\ N >= 1

\* C14: a live run requested with start = 1, end = -1 over N >= 1 non-blank
\* chapters raises no range error and resolves chapter_end to N; its range
\* message reports 1 to N; its text_to_speech calls are, in this order, the
\* calls for positions 1, 2, ... of the filtered sequence, each after the one
\* before has returned; and when the loop is done there are exactly N of them.
C14_MinusOneConvertsAll ==
    WholeBookLive =>
        /\ exc \notin RangeErrors
        /\ (ChaptersRead /\ pc # "validate") => config.chapter_end = N
        /\ \A i \in 1..Len(Messages) :
              Messages[i].msg.kind = "converting_from_to" =>
                  Messages[i].msg = RangeMsg(1, N)
        /\ Len(TtsCalls) <= N
        /\ \A k \in 1..Len(TtsCalls) :
              /\ TtsCalls[k].path = ArtifactOf(k)
              /\ TtsCalls[k].tags.idx = k
              /\ TtsCalls[k].text = Filtered[k].text
              /\ k < Len(TtsCalls) => TtsCalls[k].res = "ok"
        /\ LoopDone =>
              /\ Len(TtsCalls) = N
              /\ \A k \in 1..N : TtsCalls[k].res = "ok"

\* A live run over a book with a blank chapter and at least two others has
\* returned, requested with start = 1, end = -1.
C14_Witness ==
    /\ WholeBookLive
    /\ N >= 2 /\ N < Len(book)
    /\ pc = "returned"
    /\ config.chapter_end = N
    /\ Len(TtsCalls) = N

-----------------------------------------------------------------------------
(* C15 *)

Artifacts == {f \in files : f.ext = "audio"}
ProducedArtifacts ==
    {TtsCalls[k].path : k \in {j \in 1..Len(TtsCalls) : TtsCalls[j].res = "ok"}}

\* C15: without an artifact sink the run makes no delivery and no removal,
\* and the artifacts on local storage are, in every state and so after a
\* normal return, all those text_to_speech has produced.
C15_NoSinkKeepsArtifacts ==
    send_audio = "None" =>
        /\ Len(Calls("send_audio")) = 0
        /\ Len(Calls("remove")) = 0
        /\ Artifacts = ProducedArtifacts
        /\ Cardinality(Artifacts) = Cardinality(ProducedArtifacts)
        /\ (pc = "returned" /\ ~args.preview) =>
              /\ \A k \in 1..Len(TtsCalls) : TtsCalls[k].res = "ok"
              /\ Cardinality(Artifacts) = Len(TtsCalls)

\* A live run without an artifact sink has returned after two conversions or
\* more.
C15_Witness ==
    /\ send_audio = "None"
    /\ pc = "returned"
    /\ ~args.preview
    /\ Len(TtsCalls) >= 2
    /\ Cardinality(Artifacts) >= 2

-----------------------------------------------------------------------------
(* C16 *)

\* The range error has just been raised: control is on its way to the
\* handler of line 117 with one of the three errors of lines 52-64.
RangeErrorRaised == pc = "except_exception" /\ exc \in RangeErrors
\* No message, no cost estimate, no conversion, no dump and no artifact.
NothingDoneYet ==
    /\ Len(Messages) = 0
    /\ Len(Calls("estimate_cost")) = 0
    /\ Len(Calls("text_to_speech")) = 0
    /\ Len(Calls("write_text")) = 0
    /\ files = {}
DirectoryCreated ==
    \E i \in 1..Len(trace) : trace[i].op = "makedirs" /\ trace[i].created

\* C16 as stated: when the range error is raised nothing has been sent,
\* converted or estimated, and local storage is as before the run, the output
\* directory included.
C16_RangeErrorLeavesStorageUntouched ==
    RangeErrorRaised => NothingDoneYet /\ ~DirectoryCreated

\* C16 amended: an invalid request sends no report or progress message, makes
\* no cost or conversion call and writes no dump and no artifact, and when its
\* range error is raised the only calls made are the two of the initialising
\* step, which has made sure the output directory exists, creating it if it
\* was absent.
C16_RangeErrorBeforeEffects ==
    /\ ~ValidRequest =>
          /\ \A i \in 1..Len(trace) : ~IsReport(trace[i]) /\ ~IsChapterWork(trace[i])
          /\ Len(Calls("estimate_cost")) = 0
          /\ files = {}
    /\ (~ValidRequest /\ ChaptersRead /\ pc = "except_exception") =>
          exc \in RangeErrors
    /\ RangeErrorRaised =>
          /\ ~ValidRequest
          /\ NothingDoneYet
          /\ dirExists
          /\ Len(trace) = 2
          /\ trace[1].op = "makedirs" /\ trace[2].op = "get_chapters"

\* A range error has been raised in a run that had to create the output
\* directory.
C16_Witness ==
    /\ RangeErrorRaised
    /\ DirectoryCreated
    /\ dirExists
    /\ NothingDoneYet

-----------------------------------------------------------------------------
(* C17 *)

\* The calls an iteration of the loop makes for its chapter.
IsChapterEvent(ev) ==
    \/ ev.op = "send_message" /\ ev.msg.kind \in {"converting", "converted"}
    \/ ev.op \in {"write_text", "text_to_speech", "send_audio", "remove"}
ChapterEvents == SelectSeq(trace, IsChapterEvent)
\* The number a file name begins with.
Ordinal(path) ==
    path.ordinal[1] * 1000 + path.ordinal[2] * 100 + path.ordinal[3] * 10
        + path.ordinal[4]
\* The chapter an event belongs to, as the event itself tells it.
ChapterOf(ev) ==
    IF ev.op = "send_message" THEN ev.msg.idx
    ELSE IF ev.op = "text_to_speech" THEN ev.tags.idx
    ELSE Ordinal(ev.path)
\* 1 'Converting' message, 2 text dump, 3 text_to_speech, 4 delivery,
\* 5 deletion, 6 confirmation message.
StepOf(ev) ==
    IF ev.op = "send_message"
    THEN (IF ev.msg.kind = "converting" THEN 1 ELSE 6)
    ELSE IF ev.op = "write_text" THEN 2
    ELSE IF ev.op = "text_to_speech" THEN 3
    ELSE IF ev.op = "send_audio" THEN 4
    ELSE 5
\* The step that follows step s of a chapter, given what is enabled.
StepAfter(s) ==
    IF s = 1 THEN (IF args.output_text THEN 2 ELSE 3)
    ELSE IF s = 3 THEN (IF send_audio # "None" THEN 4 ELSE 6)
    ELSE s + 1
Returned(ev) == ev.res \in {"ok", "ok_file_gone"}

\* C17: in live mode the calls made for the chapters begin with a
\* 'Converting' message; each call but the last has returned before the next
\* is made; the call after a confirmation message is the 'Converting' message
\* of the next chapter, and the call after any other step is the next enabled
\* step of the same chapter, in the order message, dump, text_to_speech,
\* delivery, deletion, confirmation.
C17_StepsInOrder ==
    ~args.preview =>
        /\ Len(ChapterEvents) >= 1 => StepOf(ChapterEvents[1]) = 1
        /\ \A j \in 1..(Len(ChapterEvents) - 1) :
              LET e == ChapterEvents[j]
                  f == ChapterEvents[j + 1]
              IN  /\ Returned(e)
                  /\ IF StepOf(e) = 6
                     THEN /\ StepOf(f) = 1
                          /\ ChapterOf(f) = ChapterOf(e) + 1
                     ELSE /\ StepOf(f) = StepAfter(StepOf(e))
                          /\ ChapterOf(f) = ChapterOf(e)
        /\ \A j \in 1..Len(ChapterEvents) :
              StepOf(ChapterEvents[j]) = 2 => args.output_text

\* A live run with text dumps and an artifact sink has returned after going
\* through all six steps for two chapters or more.
C17_Witness ==
    /\ ~args.preview
    /\ args.output_text
    /\ send_audio # "None"
    /\ pc = "returned"
    /\ Len(ChapterEvents) >= 12
    /\ \E j \in 1..Len(ChapterEvents) :
          StepOf(ChapterEvents[j]) = 5 /\ ChapterOf(ChapterEvents[j]) = 2

-----------------------------------------------------------------------------
(* C18 *)

AllConvertedMessages ==
    SelectSeq(Messages, LAMBDA ev : ev.msg.kind = "all_chapters_converted")
\* The message that closes the work on a chapter: the confirmation in live
\* mode, the progress message in preview mode.
IsChapterClosing(ev) ==
    ev.msg.kind = (IF args.preview THEN "previewing" ELSE "converted")

\* C18: a run that has returned has sent 'All chapters converted' exactly
\* once, as its last message, and the message before it is the confirmation
\* (in preview mode the preview message) of the last chapter of the requested
\* range.
C18_AllConvertedAfterLastChapter ==
    pc = "returned" =>
        /\ Len(AllConvertedMessages) = 1
        /\ LastCall = Messages[Len(Messages)]
        /\ Messages[Len(Messages)].msg = AllConvertedMsg
        /\ Len(Messages) >= 2
        /\ IsChapterClosing(Messages[Len(Messages) - 1])
        /\ Messages[Len(Messages) - 1].msg.title = Filtered[ResolvedEnd].title

\* What does hold: 'All chapters converted' is sent at most once, its call
\* returns only in a run that returns, where it is the last call made, and
\* when a chapter was worked on the message before it closes the last chapter
\* of the range.
C18_AllConvertedOnceAndLast ==
    /\ Len(AllConvertedMessages) <= 1
    /\ pc = "returned" <=>
          (Len(AllConvertedMessages) = 1 /\ AllConvertedMessages[1].res = "ok")
    /\ pc = "returned" =>
          /\ LastCall.op = "send_message" /\ LastCall.msg = AllConvertedMsg
          /\ Len(ProgressCalls) >= 1 =>
                /\ IsChapterClosing(Messages[Len(Messages) - 1])
                /\ Messages[Len(Messages) - 1].msg.title
                      = Filtered[ResolvedEnd].title

-----------------------------------------------------------------------------
(* C19 *)

\* A delivery has returned with the artifact already gone from storage.
DeliveredAndGone ==
    \E i \in 1..Len(trace) :
        trace[i].op = "send_audio" /\ trace[i].res = "ok_file_gone"
ErrorReported(e) ==
    \E i \in 1..Len(Messages) : Messages[i].msg = ErrorMsg(e)

\* C19: when the artifact is already absent at the deletion after delivery,
\* the deletion raises nothing and no error is raised or reported for it.
C19_AbsentFileDeletionSucceeds ==
    DeliveredAndGone =>
        /\ \A i \in 1..Len(trace) : trace[i].op = "remove" => Returned(trace[i])
        /\ exc # FileNotFound
        /\ ~ErrorReported(FileNotFound)

-----------------------------------------------------------------------------
(* C20 *)

\* The caller's configuration with chapter_end = -1 replaced by N.
ResolvedArgs == [args EXCEPT !.chapter_end = N]

\* C20: in every state, abort included, the configuration is the caller's,
\* or the caller's with a chapter_end of -1 replaced by N; and a step changes
\* it only from the first to the second, hence at most once.
C20_ConfigOnlyResolved ==
    /\ [](/\ config.chapter_start = args.chapter_start
          /\ config.preview = args.preview
          /\ config.output_text = args.output_text
          /\ config.output_folder = args.output_folder
          /\ args.chapter_end # -1 => config.chapter_end = args.chapter_end
          /\ config \in {args, ResolvedArgs})
    /\ [][config' # config =>
             /\ config = args
             /\ args.chapter_end = -1
             /\ config' = ResolvedArgs
             /\ config' # args]_vars

\* A run that resolved chapter_end = -1 has ended by raising, with the
\* configuration still holding N.
C20_Witness ==
    /\ args.chapter_end = -1
    /\ config = ResolvedArgs
    /\ config # args
    /\ pc = "raised"
    /\ N >= 2

-----------------------------------------------------------------------------
(* C21 *)

\* The lifecycle state a position of run() belongs to: 1 Initializing,
\* 2 RangeValidating, 3 Reporting, 4 Converting, 5 Completed, 6 Aborted (an
\* except clause, or the exception on its way to the caller).
Phase(p) ==
    IF p = "start" THEN 1
    ELSE IF p = "validate" THEN 2
    ELSE IF p \in {"report_count", "report_range", "report_total",
                   "estimate_cost", "report_cost"} THEN 3
    ELSE IF p \in {"loop", "progress", "output_text", "text_to_speech",
                   "send_audio", "remove", "converted", "all_converted"} THEN 4
    ELSE IF p = "returned" THEN 5
    ELSE 6
\* A step stays in its lifecycle state, moves to the next one, or leaves a
\* state that is not terminal for Aborted; Completed and Aborted are not left.
PhaseStep ==
    \/ Phase(pc') = Phase(pc)
    \/ Phase(pc) <= 4 /\ Phase(pc') = Phase(pc) + 1
    \/ Phase(pc) <= 4 /\ Phase(pc') = 6
\* The positions of each lifecycle state where a call is made that may raise
\* (for the range checks: where the request is invalid).
MayRaiseHere ==
    \/ pc \in {"start", "report_count", "estimate_cost", "progress",
               "text_to_speech", "converted", "all_converted"}
    \/ pc = "validate" /\ ~ValidRequest
AbortingStep == Next /\ Phase(pc') = 6

\* C21: every step keeps the lifecycle state or moves it one forward in the
\* order Initializing, RangeValidating, Reporting, Converting, Completed, or
\* moves it from a non-terminal state to Aborted; each of the four
\* non-terminal states has positions where a step to Aborted is possible;
\* a run starts in Initializing and, every call returning or raising, ends
\* in Completed or Aborted and stays there.
C21_Lifecycle ==
    /\ Phase(pc) = 1
    /\ [][PhaseStep]_vars
    /\ [](MayRaiseHere => ENABLED AbortingStep)
    /\ [](pc \in Terminal => ~ENABLED Next)
    /\ <>[](pc \in Terminal)

\* A run has gone through the four states and completed after converting two
\* chapters or more.
C21_Witness ==
    /\ pc = "returned"
    /\ Phase(pc) = 5
    /\ Len(Messages) >= 7
    /\ Len(TtsCalls) >= 2

-----------------------------------------------------------------------------
(* C22 *)

\* C22: with an artifact sink, at most one artifact is on local storage in any
\* state; it is the output file of the chapter at hand, and it is there only
\* between that chapter's text_to_speech and its deletion, or after a failed
\* delivery has ended the run; whenever text_to_speech is about to be called
\* no artifact is on storage.
C22_AtMostOneArtifact ==
    send_audio # "None" =>
        /\ Cardinality(Artifacts) <= 1
        /\ pc = "text_to_speech" => Artifacts = {}
        /\ Artifacts # {} =>
              /\ Artifacts = {OutputFile(idx, chapters[idx].title)}
              /\ Len(TtsCalls) >= 1
              /\ TtsCalls[Len(TtsCalls)].path \in Artifacts
              /\ pc \in {"send_audio", "remove", "except_keyboard_interrupt",
                         "except_exception", "raised"}
              /\ pc \notin {"send_audio", "remove"} =>
                    /\ LastCall.op \in {"send_audio", "send_message"}
                    /\ Len(Calls("send_audio")) = Len(TtsCalls)
                    /\ ~Returned(Calls("send_audio")[Len(TtsCalls)])

\* With an artifact sink, the artifact of a second or later chapter is on
\* storage waiting for its delivery, those of the chapters before it having
\* been delivered and removed.
C22_Witness ==
    /\ send_audio # "None"
    /\ pc = "send_audio"
    /\ Len(TtsCalls) >= 2
    /\ Len(Calls("remove")) >= 1
    /\ Cardinality(Artifacts) = 1

-----------------------------------------------------------------------------
(* C23 *)

\* The uploads of the bot's sink that failed with an Exception: their
\* positions in the trace.
FailedUploads ==
    {i \in 1..Len(trace) :
        trace[i].op = "bot.send_audio" /\ trace[i].res = "Exception"}
\* The chapter whose artifact has this path.
ChapterAt(path) == chapters[Ordinal(path)]

\* C23: run with the bot's sink.  After an upload that failed with an
\* Exception the failure is logged and the sink returns; the next two calls
\* of run() are the deletion of that chapter's artifact, which succeeds and
\* leaves it absent, and the chapter's confirmation message; when that has
\* returned the loop is at its next iteration or past it; and neither run()
\* nor process_ebook ever holds or reports an exception of the sink.
C23_BotSinkFailureOnlyLogged ==
    /\ \A i \in FailedUploads :
          LET path == trace[i].path
          IN  /\ trace[i + 1].op = "log"
              /\ trace[i + 1].msg = "error_sending_audio_file"
              /\ trace[i + 2].op = "send_audio" /\ trace[i + 2].res = "ok"
              /\ Len(trace) = i + 2 => pc = "remove" /\ exc = NoExc
              /\ Len(trace) >= i + 4 =>
                    /\ trace[i + 4].op = "remove" /\ trace[i + 4].res = "ok"
                    /\ trace[i + 4].path = path
                    /\ path \notin files
              /\ Len(trace) = i + 4 => pc = "converted" /\ exc = NoExc
              /\ Len(trace) >= i + 5 =>
                    /\ trace[i + 5].op = "send_message"
                    /\ trace[i + 5].msg
                          = ConvertedMsg(Ordinal(path), Len(chapters),
                                         ChapterAt(path))
              /\ (Len(trace) = i + 5 /\ trace[i + 5].res = "ok") =>
                    pc \in {"loop", "progress", "all_converted"} /\ exc = NoExc
    /\ exc # RaisedBy("send_audio", "Exception")
    /\ \A i \in 1..Len(trace) :
          /\ trace[i].op = "send_audio" => trace[i].res # "Exception"
          /\ trace[i].op \in {"send_message", "reply_text"} =>
                /\ trace[i].msg.kind = "an_error_occurred" =>
                      trace[i].msg.text # "send_audio"
                /\ trace[i].msg.kind = "error_during_processing" =>
                      trace[i].msg.text # "send_audio"

\* The upload of the first chapter failed with an Exception and run() has
\* gone on to convert the second.
C23_Witness ==
    /\ \E i \in FailedUploads : Ordinal(trace[i].path) = 1
    /\ Len(TtsCalls) >= 2
    /\ Len(Calls("remove")) >= 1
    /\ \E j \in 1..Len(Messages) : Messages[j].msg.kind = "converted"

-----------------------------------------------------------------------------
(* C24 *)

\* The conversation waits for the ending chapter, a start chapter s >= 1
\* having been accepted, and the next text is still followed.
AwaitingEndChapter ==
    /\ pc = "ENTERING_END_CHAPTER"
    /\ args.chapter_start >= 1
    /\ Len(InvalidReplies) < MaxInvalidReplies
\* The step of the handler that stores -1 and goes on to process_ebook.
AcceptsDefaultEnd ==
    BotNext /\ args'.chapter_end = -1 /\ pc' = "process_ebook"

\* C24: whenever the conversation waits for the ending chapter, the handler
\* has a step, that for the text -1, which stores end_chapter = -1 and starts
\* process_ebook.
C24_DefaultEndAccepted == AwaitingEndChapter => ENABLED AcceptsDefaultEnd

\* What does hold: process_ebook is only ever started from this conversation
\* with an end chapter that is above the start chapter, never with -1.
C24_EndAboveStart ==
    pc \notin {"ENTERING_START_CHAPTER", "ENTERING_END_CHAPTER"} =>
        /\ args.chapter_start >= 1
        /\ args.chapter_end > args.chapter_start
        /\ args.chapter_end # -1

====
